---- MODULE Spec2Model ----
(***************************************************************************)
(* Kube Credential: the issuance service (durable credential store, POST   *)
(* /issue handler, fire-and-forget replication push) and the verification  *)
(* service (in-memory cache, /sync, /verify).                              *)
(*                                                                         *)
(* Every `await` of the TypeScript source is a point where another request *)
(* handler, an I/O completion or an administrative operation may run; the  *)
(* code between two awaits is one atomic action.                           *)
(***************************************************************************)
EXTENDS Integers, Sequences, FiniteSets, TLC

(***************************************************************************)
(* Bounds of the model.                                                    *)
(***************************************************************************)
\* number of POST /issue requests one run of the issuance service receives
MaxReqs == 2
\* Date.now() takes the values 0..MaxClock
MaxClock == 1
\* Math.random() takes the values 1..MaxRand
MaxRand == 1
\* longest batch an external caller posts to /sync
MaxBatch == 2

Reqs == 1..MaxReqs

(***************************************************************************)
(* Data payloads.  A payload is a JavaScript object: its own keys in       *)
(* insertion order, each with a value, here a sequence of <<key, value>>.  *)
(* PAB and PBA hold the same fields written in a different key order.      *)
(***************************************************************************)
PAB == << <<"userId", "u1">>, <<"role", "admin">> >>
PBA == << <<"role", "admin">>, <<"userId", "u1">> >>
Payloads == {PAB, PBA}

\* The body of a POST /issue: `data` is absent (or falsy) or is a payload.
Bodies == {[hasData |-> FALSE, data |-> << >>]}
            \cup {[hasData |-> TRUE, data |-> p] : p \in Payloads}

\* JSON.stringify of a payload: the members in the object's key order.
RECURSIVE Members(_)
Members(p) ==
    IF p = << >> THEN << >>
    ELSE LET m == <<"\"", Head(p)[1], "\"", ":", "\"", Head(p)[2], "\"">>
         IN  IF Len(p) = 1 THEN m ELSE m \o <<",">> \o Members(Tail(p))

Stringify(p) == <<"{">> \o Members(p) \o <<"}">>

\* `worker-${n}`
WorkerIdStr(n) == <<"worker-", n>>

(***************************************************************************)
(* Optional values (T | undefined) are sequences of length 0 or 1.         *)
(***************************************************************************)
Undefined == << >>
Some(x) == <<x>>

VARIABLES
    \* ---- issuance service: CredentialStorage ----
    credentials,    \* this.data.credentials: Map id -> Credential
    lastWorkerId,   \* this.data.lastWorkerId
    file,           \* the backing medium at this.filePath
    \* ---- issuance service: POST /issue handlers ----
    handler,        \* per request: position and locals of the handler
    response,       \* per request: the responses sent to the client
    clearing,       \* the clearAll() call: its position and the snapshot it writes
    \* ---- replication channel ----
    pushes,         \* POSTs to /sync in flight
    \* ---- verification service ----
    cache,          \* VerificationStorage.data.credentials (insertion order)
    synced,         \* the last POST /sync and its answer
    verdict,        \* the last answer of POST /verify
    vfile,          \* the backing medium at the verification service's filePath
    \* ---- start of a service ----
    up,             \* initialize() has resolved and the service listens
    \* ---- frontend ----
    client,         \* the call of credentialService in progress and its outcome
    \* ---- a second instance of the issuance service ----
    replica         \* its store, its backing medium and the responses it sent

issuanceVars == <<credentials, lastWorkerId, file, handler, response, clearing>>
verificationVars == <<cache, synced, verdict>>
vars == <<credentials, lastWorkerId, file, handler, response, clearing,
          pushes, cache, synced, verdict, vfile, up, client, replica>>

(***************************************************************************)
(* CredentialStorage (issuance-service/src/storage.ts)                     *)
(***************************************************************************)
EmptyMap == [k \in {} |-> 0]

\* Object.fromEntries(map): the serialisable object, a set of entries
FromMap(map) == {<<k, map[k]>> : k \in DOMAIN map}

\* new Map(Object.entries(obj))
ToMap(obj) == [k \in {e[1] : e \in obj} |-> CHOOSE v \in {e[2] : e \in obj} : <<k, v>> \in obj]

\* (mutant) the Map itself is handed to JSON.stringify, which writes {}
SerializableMapItself(creds, last) == [credentials |-> {}, lastWorkerId |-> last]

\* the object save() hands to JSON.stringify
Serializable(creds, last) == [credentials |-> FromMap(creds), lastWorkerId |-> last]

\* the backing medium: no file, a file that does not parse, or a snapshot
FileAbsent == [state |-> "absent", content |-> Serializable(EmptyMap, 0)]
FileCorrupt == [state |-> "corrupt", content |-> Serializable(EmptyMap, 0)]
FileOf(snap) == [state |-> "ok", content |-> snap]

\* (mutant) the counter of the snapshot is not loaded
initializeForgetsCounter(f) ==
    IF f.state = "ok"
    THEN [credentials |-> ToMap(f.content.credentials),
          lastWorkerId |-> 0,
          file |-> f]
    ELSE [credentials |-> EmptyMap,
          lastWorkerId |-> 0,
          file |-> FileOf(Serializable(EmptyMap, 0))]

\* initialize(): the in-memory data and the backing medium after it ran on
\* a freshly constructed store
initialize(f) ==
    IF f.state = "ok"
    THEN [credentials |-> ToMap(f.content.credentials),
          lastWorkerId |-> f.content.lastWorkerId,
          file |-> f]
    ELSE [credentials |-> EmptyMap,
          lastWorkerId |-> 0,
          file |-> FileOf(Serializable(EmptyMap, 0))]

\* a file that cannot be read (fs.access or fs.readFile throws)
FileUnreadable == [state |-> "unreadable", content |-> Serializable(EmptyMap, 0)]

\* fs.writeFile(filePath, JSON.stringify(snap)): the file is written, or the
\* call throws and leaves the file as it was or truncated
WriteOutcomes == {"written", "failed", "truncated"}
writeFile(f, snap, outcome) ==
    IF outcome = "written" THEN FileOf(snap)
    ELSE IF outcome = "truncated" THEN FileCorrupt
    ELSE f

\* (mutant) the catch branch writes the snapshot of an empty store
initializeOnWritesEmpty(creds, last, f, outcome) ==
    IF f.state = "ok"
    THEN [credentials |-> ToMap(f.content.credentials),
          lastWorkerId |-> f.content.lastWorkerId,
          file |-> f, failed |-> FALSE]
    ELSE [credentials |-> creds,
          lastWorkerId |-> last,
          file |-> writeFile(f, Serializable(EmptyMap, 0), outcome),
          failed |-> outcome # "written"]

\* initialize() on a store that holds creds and last: a snapshot that can be
\* read and parsed replaces both; otherwise the catch branch calls save(),
\* which writes what the store holds, and initialize() rejects if save() does
initializeOn(creds, last, f, outcome) ==
    IF f.state = "ok"
    THEN [credentials |-> ToMap(f.content.credentials),
          lastWorkerId |-> f.content.lastWorkerId,
          file |-> f, failed |-> FALSE]
    ELSE [credentials |-> creds,
          lastWorkerId |-> last,
          file |-> writeFile(f, Serializable(creds, last), outcome),
          failed |-> outcome # "written"]

\* (mutant) the id is built before the counter is incremented
getNextWorkerIdBeforeIncrement(last) ==
    [lastWorkerId |-> last + 1, workerId |-> WorkerIdStr(last)]

\* getNextWorkerId(): the counter is incremented, then `worker-${counter}`
getNextWorkerId(last) ==
    [lastWorkerId |-> last + 1, workerId |-> WorkerIdStr(last + 1)]

\* generateCredentialId(): `cred_${Date.now()}_${Math.random()...}`
generateCredentialId(t, rnd) == <<"cred_", t, rnd>>

\* (mutant) the issuer is a fixed name, not the worker id that was passed
NewCredentialByOneWorker(id, data, t, workerId) ==
    [id |-> id, data |-> data, issuedAt |-> t, issuedBy |-> WorkerIdStr(1),
     status |-> "issued"]

\* the Credential issueCredential builds
NewCredential(id, data, t, workerId) ==
    [id |-> id, data |-> data, issuedAt |-> t, issuedBy |-> workerId,
     status |-> "issued"]

\* Map.set
MapSet(map, k, v) == [x \in DOMAIN map \cup {k} |-> IF x = k THEN v ELSE map[x]]

\* getCredential(id)
getCredential(map, id) == IF id \in DOMAIN map THEN Some(map[id]) ELSE Undefined

\* getAllCredentials()
getAllCredentials(map) == {map[k] : k \in DOMAIN map}

\* (mutant) the payloads are compared with ===, by reference: the parsed
\* body of a request is never the object a stored credential holds
credentialExistsByReference(existingCredentials, data) ==
    \E cred \in existingCredentials : FALSE

\* the duplicate check of the POST /issue handler
credentialExists(existingCredentials, data) ==
    \E cred \in existingCredentials : Stringify(cred.data) = Stringify(data)

(***************************************************************************)
(* POST /issue (issuance-service/src/index.ts)                             *)
(***************************************************************************)
IdleHandler ==
    [pc |-> "idle", body |-> [hasData |-> FALSE, data |-> << >>],
     existingCredentials |-> {}, workerId |-> <<"worker-", 0>>,
     credential |-> Undefined, snapshot |-> Undefined]

\* the handler returned: the locals it no longer reads are gone
Done(h) == [h EXCEPT !.pc = "done", !.existingCredentials = {}, !.snapshot = Undefined]

\* the `message` of a CredentialResponse
Message(status, workerId) ==
    IF status = 201 THEN <<"Credential issued by ", workerId[1]>>
    ELSE IF status = 400 THEN <<"Invalid request: credential data is required">>
    ELSE IF status = 409 THEN <<"Credential with identical data has already been issued">>
    ELSE <<"Internal server error occurred while issuing credential">>

\* res.status(status).json(response)
Respond(r, status, workerId, credential) ==
    response' = [response EXCEPT ![r] =
        Append(@, [status |-> status, message |-> Message(status, workerId),
                   workerId |-> workerId, credential |-> credential])]

\* (mutant) the worker id is taken before the body is validated
ReceiveTakesWorkerIdFirst(r, body) ==
    /\ handler[r].pc = "idle"
    /\ \A q \in Reqs : q < r => handler[q].pc # "idle"
    /\ IF ~body.hasData
       THEN /\ handler' = [handler EXCEPT ![r] = Done([@ EXCEPT !.body = body])]
            /\ Respond(r, 400, Undefined, Undefined)
            /\ lastWorkerId' = lastWorkerId + 1
       ELSE /\ handler' = [handler EXCEPT ![r].pc = "check", ![r].body = body,
                              ![r].existingCredentials = getAllCredentials(credentials)]
            /\ UNCHANGED <<replica, client, up, vfile, response, lastWorkerId>>
    /\ UNCHANGED <<replica, client, up, vfile, credentials, file, clearing, pushes, cache, synced, verdict>>

\* request received: validation, then `await storage.getAllCredentials()`
Receive(r, body) ==
    /\ handler[r].pc = "idle"
    /\ \A q \in Reqs : q < r => handler[q].pc # "idle"
    /\ IF ~body.hasData
       THEN /\ handler' = [handler EXCEPT ![r] = Done([@ EXCEPT !.body = body])]
            /\ Respond(r, 400, Undefined, Undefined)
       ELSE /\ handler' = [handler EXCEPT ![r].pc = "check", ![r].body = body,
                              ![r].existingCredentials = getAllCredentials(credentials)]
            /\ UNCHANGED response
    /\ UNCHANGED <<replica, client, up, vfile, credentials, lastWorkerId, file, clearing, pushes, cache, synced, verdict>>

\* (mutant) the worker id is taken before the duplicate check
DuplicateAfterWorkerId(r) ==
    /\ handler[r].pc = "check"
    /\ credentialExists(handler[r].existingCredentials, handler[r].body.data)
    /\ lastWorkerId' = getNextWorkerId(lastWorkerId).lastWorkerId
    /\ handler' = [handler EXCEPT ![r] = Done(@)]
    /\ Respond(r, 409, Undefined, Undefined)
    /\ UNCHANGED <<replica, client, up, vfile, credentials, file, clearing, pushes, cache, synced, verdict>>

\* duplicate found: 409
Duplicate(r) ==
    /\ handler[r].pc = "check"
    /\ credentialExists(handler[r].existingCredentials, handler[r].body.data)
    /\ handler' = [handler EXCEPT ![r] = Done(@)]
    /\ Respond(r, 409, Undefined, Undefined)
    /\ UNCHANGED <<replica, client, up, vfile, credentials, lastWorkerId, file, clearing, pushes, cache, synced, verdict>>

\* (mutant) the store is scanned again, in the same step as Map.set
IssueAfterFreshScan(r, now, rnd) ==
    /\ handler[r].pc = "check"
    /\ ~credentialExists(getAllCredentials(credentials), handler[r].body.data)
    /\ LET next == getNextWorkerId(lastWorkerId)
           workerId == next.workerId
           id == generateCredentialId(now, rnd)
           credential == NewCredential(id, handler[r].body.data, now, workerId)
       IN  /\ lastWorkerId' = next.lastWorkerId
           /\ credentials' = MapSet(credentials, id, credential)
           /\ handler' = [handler EXCEPT ![r].pc = "save", ![r].workerId = workerId,
                             ![r].credential = Some(credential)]
    /\ UNCHANGED <<replica, client, up, vfile, file, response, clearing, pushes, cache, synced, verdict>>

\* no duplicate: getNextWorkerId(), then issueCredential up to `await this.save()`
Issue(r, now, rnd) ==
    /\ handler[r].pc = "check"
    /\ ~credentialExists(handler[r].existingCredentials, handler[r].body.data)
    /\ LET next == getNextWorkerId(lastWorkerId)
           workerId == next.workerId
           id == generateCredentialId(now, rnd)
           credential == NewCredential(id, handler[r].body.data, now, workerId)
       IN  /\ lastWorkerId' = next.lastWorkerId
           /\ credentials' = MapSet(credentials, id, credential)
           /\ handler' = [handler EXCEPT ![r].pc = "save", ![r].workerId = workerId,
                             ![r].credential = Some(credential)]
    /\ UNCHANGED <<replica, client, up, vfile, file, response, clearing, pushes, cache, synced, verdict>>

\* save(): the directory exists; the data is serialised and writeFile starts
SaveSerialize(r) ==
    /\ handler[r].pc = "save"
    /\ handler' = [handler EXCEPT ![r].pc = "write",
                      ![r].snapshot = Some(Serializable(credentials, lastWorkerId))]
    /\ UNCHANGED <<replica, client, up, vfile, credentials, lastWorkerId, file, response, clearing, pushes, cache, synced, verdict>>

\* save(): ensureDirectoryExists throws (mkdir fails): 500
SaveFail(r) ==
    /\ handler[r].pc = "save"
    /\ handler' = [handler EXCEPT ![r] = Done(@)]
    /\ Respond(r, 500, Undefined, Undefined)
    /\ UNCHANGED <<replica, client, up, vfile, credentials, lastWorkerId, file, clearing, pushes, cache, synced, verdict>>

\* (mutant) the credential is put into the batch twice
SyncBodyTwice(credential) == [credentials |-> <<credential, credential>>]

\* the push syncToVerification sends: a one-element batch
SyncBody(credential) == [credentials |-> <<credential>>]

\* (mutant) the handler awaits the push before it answers
WriteOkAwaitsPush(r) ==
    /\ handler[r].pc = "write"
    /\ file' = FileOf(handler[r].snapshot[1])
    /\ pushes' = pushes \cup {[req |-> r, body |-> SyncBody(handler[r].credential[1])]}
    /\ handler' = [handler EXCEPT ![r].pc = "sync"]
    /\ UNCHANGED <<replica, client, up, vfile, credentials, lastWorkerId, response, clearing, cache, synced, verdict>>

\* writeFile completed: issueCredential returns, the push is started and
\* 201 is sent without waiting for it
WriteOk(r) ==
    /\ handler[r].pc = "write"
    /\ file' = FileOf(handler[r].snapshot[1])
    /\ pushes' = pushes \cup {[req |-> r, body |-> SyncBody(handler[r].credential[1])]}
    /\ handler' = [handler EXCEPT ![r] = Done(@)]
    /\ Respond(r, 201, Some(handler[r].workerId), handler[r].credential)
    /\ UNCHANGED <<replica, client, up, vfile, credentials, lastWorkerId, clearing, cache, synced, verdict>>

\* writeFile failed: the exception reaches the handler's catch, 500.  The
\* file is as it was (open failed) or truncated (the write failed).
WriteFail(r, truncated) ==
    /\ handler[r].pc = "write"
    /\ file' = IF truncated THEN FileCorrupt ELSE file
    /\ handler' = [handler EXCEPT ![r] = Done(@)]
    /\ Respond(r, 500, Undefined, Undefined)
    /\ UNCHANGED <<replica, client, up, vfile, credentials, lastWorkerId, clearing, pushes, cache, synced, verdict>>

(***************************************************************************)
(* clearAll(): the maps are emptied and the counter reset, then save()     *)
(***************************************************************************)
\* (mutant) the counter is not reset
ClearAllKeepsCounter ==
    /\ clearing.pc = "idle"
    /\ credentials' = EmptyMap
    /\ clearing' = [clearing EXCEPT !.pc = "save"]
    /\ UNCHANGED <<replica, client, up, vfile, lastWorkerId, file, handler, response, pushes, cache, synced,
                   verdict>>

ClearAll ==
    /\ clearing.pc = "idle"
    /\ credentials' = EmptyMap
    /\ lastWorkerId' = 0
    /\ clearing' = [clearing EXCEPT !.pc = "save"]
    /\ UNCHANGED <<replica, client, up, vfile, file, handler, response, pushes, cache, synced, verdict>>

ClearSerialize ==
    /\ clearing.pc = "save"
    /\ clearing' = [pc |-> "write",
                    snapshot |-> Some(Serializable(credentials, lastWorkerId))]
    /\ UNCHANGED <<replica, client, up, vfile, credentials, lastWorkerId, file, handler, response,
                   pushes, cache, synced, verdict>>

ClearWrite(ok) ==
    /\ clearing.pc = "write"
    /\ file' = IF ok THEN FileOf(clearing.snapshot[1]) ELSE file
    /\ clearing' = [pc |-> "done", snapshot |-> Undefined]
    /\ UNCHANGED <<replica, client, up, vfile, credentials, lastWorkerId, handler, response, pushes,
                   cache, synced, verdict>>

(***************************************************************************)
(* Restart of the issuance service: the process ends, requests in flight   *)
(* get no answer, and startServer() runs initialize() on a new store       *)
(* before any request is served.                                           *)
(***************************************************************************)
Restart ==
    /\ LET init == initialize(file)
       IN  /\ credentials' = init.credentials
           /\ lastWorkerId' = init.lastWorkerId
           /\ file' = init.file
    /\ handler' = [r \in Reqs |->
                     IF handler[r].pc \in {"idle", "done"} THEN handler[r]
                     ELSE [Done(handler[r]) EXCEPT !.pc = "aborted"]]
    /\ clearing' = IF clearing.pc \in {"idle", "done"} THEN clearing
                   ELSE [pc |-> "done", snapshot |-> Undefined]
    /\ UNCHANGED <<replica, client, up, vfile, response, pushes, cache, synced, verdict>>

(***************************************************************************)
(* VerificationStorage (verification-service/src/storage.ts).  The cache   *)
(* is a Map; its iteration order is its insertion order, so it is a        *)
(* sequence of <<id, credential>> entries with distinct ids.               *)
(***************************************************************************)
CacheIds(c) == {c[i][1] : i \in 1..Len(c)}

\* Map.get
CacheGet(c, id) ==
    IF id \in CacheIds(c)
    THEN Some(c[CHOOSE i \in 1..Len(c) : c[i][1] = id][2])
    ELSE Undefined

\* Map.set: an existing key keeps its position, a new key goes last
CacheSet(c, id, cred) ==
    IF id \in CacheIds(c)
    THEN [i \in 1..Len(c) |-> IF c[i][1] = id THEN <<id, cred>> ELSE c[i]]
    ELSE Append(c, <<id, cred>>)

\* the elements of a set, in some order
RECURSIVE SeqOf(_)
SeqOf(S) == IF S = {} THEN << >> ELSE LET x == CHOOSE x \in S : TRUE IN <<x>> \o SeqOf(S \ {x})

\* a JSON null where a credential is expected
Null == [null |-> TRUE]

\* `cred.id` throws a TypeError when cred is null
ForEachThrows(batch) == \E i \in 1..Len(batch) : batch[i] = Null

\* credentials.forEach(cred => this.data.credentials.set(cred.id, cred)):
\* the cache when forEach has returned, or has thrown at the first null
RECURSIVE SetAll(_, _)
SetAll(c, batch) ==
    IF batch = << >> \/ Head(batch) = Null THEN c
    ELSE SetAll(CacheSet(c, Head(batch).id, Head(batch)), Tail(batch))

\* (mutant) the batch is merged into the cache: clear() is missing
syncCredentialsMerge(c, batch) == SetAll(c, batch)

\* syncCredentials(credentials): clear(), then set each; the cache it
\* leaves, whether it returned or threw
syncCredentials(c, batch) == SetAll(<< >>, batch)

\* (mutant) as the issuance store does: the catch branch writes a snapshot
verifierInitializeLikeStore(c, f) ==
    IF f.state = "ok"
    THEN [cache |-> SeqOf(f.content.credentials), file |-> f, failed |-> FALSE]
    ELSE [cache |-> c, file |-> FileOf([credentials |-> {c[i] : i \in 1..Len(c)},
                                        lastWorkerId |-> 0]),
          failed |-> FALSE]

\* VerificationStorage.initialize(): the snapshot is loaded when it can be
\* read and parsed; otherwise the error is logged and nothing else happens.
\* Nothing is written in either case.
verifierInitialize(c, f) ==
    IF f.state = "ok"
    THEN [cache |-> SeqOf(f.content.credentials), file |-> f, failed |-> FALSE]
    ELSE [cache |-> c, file |-> f, failed |-> FALSE]

\* the copy of the credential both verify methods return
CredentialCopy(credential) ==
    [id |-> credential.id, data |-> credential.data, issuedAt |-> credential.issuedAt,
     issuedBy |-> credential.issuedBy, status |-> credential.status]

\* (mutant) the status is not looked at
verifyCredentialByIdAnyStatus(c, id) ==
    LET credential == CacheGet(c, id)
    IN  IF credential # Undefined
        THEN [isValid |-> TRUE, credential |-> Some(CredentialCopy(credential[1]))]
        ELSE [isValid |-> FALSE, credential |-> Undefined]

\* verifyCredentialById(id)
verifyCredentialById(c, id) ==
    LET credential == CacheGet(c, id)
    IN  IF credential # Undefined /\ credential[1].status = "issued"
        THEN [isValid |-> TRUE, credential |-> Some(CredentialCopy(credential[1]))]
        ELSE [isValid |-> FALSE, credential |-> Undefined]

\* (mutant) the status is not looked at
DataMatchesAnyStatus(credential, credentialData) ==
    Stringify(credential.data) = Stringify(credentialData)

\* the test of the loop of verifyCredentialByData
DataMatches(credential, credentialData) ==
    /\ Stringify(credential.data) = Stringify(credentialData)
    /\ credential.status = "issued"

\* verifyCredentialByData(credentialData): the first entry that matches
verifyCredentialByData(c, credentialData) ==
    LET hits == {i \in 1..Len(c) : DataMatches(c[i][2], credentialData)}
    IN  IF hits # {}
        THEN LET first == CHOOSE i \in hits : \A j \in hits : i <= j
             IN  [isValid |-> TRUE, credential |-> Some(CredentialCopy(c[first][2]))]
        ELSE [isValid |-> FALSE, credential |-> Undefined]

\* getAllCredentials() of the cache
cacheCredentials(c) == {c[i][2] : i \in 1..Len(c)}

(***************************************************************************)
(* Verification service routes (verification-service index)               *)
(***************************************************************************)
\* (mutant) the batch is added to what the cache holds
syncRouteKeepsCache(c, body) ==
    IF ~body.isArray
    THEN [cache |-> c, status |-> 400]
    ELSE IF ForEachThrows(body.credentials)
    THEN [cache |-> SetAll(c, body.credentials), status |-> 500]
    ELSE [cache |-> SetAll(c, body.credentials), status |-> 200]

\* POST /sync: the body's `credentials` is an array or is not
syncRoute(c, body) ==
    IF ~body.isArray
    THEN [cache |-> c, status |-> 400]
    ELSE IF ForEachThrows(body.credentials)
    THEN [cache |-> syncCredentials(c, body.credentials), status |-> 500]
    ELSE [cache |-> syncCredentials(c, body.credentials), status |-> 200]

\* (mutant) the whole credential is returned
SummaryWithData(credential) == CredentialCopy(credential)

\* the credential summary of a /verify response
Summary(credential) ==
    [id |-> credential.id, issuedAt |-> credential.issuedAt,
     issuedBy |-> credential.issuedBy, status |-> credential.status]

\* (mutant) the request is not validated
verifyRejectsNothing(request) == FALSE

\* POST /verify: the request is rejected when it has neither a (truthy) id
\* nor (truthy) data
verifyRejects(request) == ~request.hasId /\ ~request.hasData

\* (mutant) the lookup is by data when the request has data
verifyDispatchDataFirst(c, request) ==
    IF request.hasData THEN verifyCredentialByData(c, request.data)
    ELSE verifyCredentialById(c, request.id)

\* POST /verify: the lookup, by id when the request has an id
verifyDispatch(c, request) ==
    IF request.hasId THEN verifyCredentialById(c, request.id)
    ELSE verifyCredentialByData(c, request.data)

\* POST /verify: the response to the result of the lookup
verifyRespond(result) ==
    IF result.isValid /\ result.credential # Undefined
    THEN [status |-> 200, success |-> TRUE, isValid |-> TRUE,
          message |-> <<"Credential is valid. Issued by ", result.credential[1].issuedBy,
                        " on ", result.credential[1].issuedAt>>,
          credential |-> Some(Summary(result.credential[1]))]
    ELSE [status |-> 200, success |-> TRUE, isValid |-> FALSE,
          message |-> <<"Credential is not valid or does not exist">>,
          credential |-> Undefined]

\* POST /verify
verifyRoute(c, request) ==
    IF verifyRejects(request)
    THEN [status |-> 400, success |-> FALSE, isValid |-> FALSE,
          message |-> <<"Invalid request: either credential ID or data is required">>,
          credential |-> Undefined]
    ELSE verifyRespond(verifyDispatch(c, request))

\* (mutant) the push that arrives carries every credential of the store
DeliverPushFullStore(m) ==
    /\ m \in pushes
    /\ LET body == [isArray |-> TRUE, credentials |-> SeqOf(getAllCredentials(credentials))]
       IN  /\ cache' = syncRoute(cache, body).cache
           /\ synced' = Some([body |-> body, status |-> syncRoute(cache, body).status])
    /\ pushes' = pushes \ {m}
    /\ UNCHANGED <<replica, client, up, vfile, credentials, lastWorkerId, file, handler, response, clearing,
                   verdict>>

\* a push of the issuance service reaches /sync
DeliverPush(m) ==
    /\ m \in pushes
    /\ LET body == [isArray |-> TRUE, credentials |-> m.body.credentials]
       IN  /\ cache' = syncRoute(cache, body).cache
           /\ synced' = Some([body |-> body, status |-> syncRoute(cache, body).status])
    /\ pushes' = pushes \ {m}
    /\ UNCHANGED <<replica, client, up, vfile, credentials, lastWorkerId, file, handler, response, clearing,
                   verdict>>

\* (mutant) the failure of a push reaches the client as a 500
LosePushSurfaced(m) ==
    /\ m \in pushes
    /\ pushes' = pushes \ {m}
    /\ Respond(m.req, 500, Undefined, Undefined)
    /\ UNCHANGED <<replica, client, up, vfile, credentials, lastWorkerId, file, handler, clearing, cache, synced, verdict>>

\* a push fails (network error, timeout, verifier down, non-2xx answer):
\* syncToVerification logs it and nothing else happens
LosePush(m) ==
    /\ m \in pushes
    /\ pushes' = pushes \ {m}
    /\ UNCHANGED <<replica, client, up, vfile, credentials, lastWorkerId, file, handler, response, clearing,
                   cache, synced, verdict>>

\* any other caller posts to /sync
SyncCall(body) ==
    /\ cache' = syncRoute(cache, body).cache
    /\ synced' = Some([body |-> body, status |-> syncRoute(cache, body).status])
    /\ UNCHANGED <<replica, client, up, vfile, credentials, lastWorkerId, file, handler, response, clearing,
                   pushes, verdict>>

\* (mutant) a credential that verified is removed from the cache
VerifyCallConsumes(request) ==
    /\ verdict' = Some([request |-> request, response |-> verifyRoute(cache, request)])
    /\ cache' = IF verifyRoute(cache, request).isValid
                THEN SelectSeq(cache, LAMBDA e :
                         e[2].id # verifyRoute(cache, request).credential[1].id)
                ELSE cache
    /\ UNCHANGED <<replica, client, up, vfile, credentials, lastWorkerId, file, handler, response,
                   clearing, pushes, synced>>

\* a client posts to /verify
VerifyCall(request) ==
    /\ verdict' = Some([request |-> request, response |-> verifyRoute(cache, request)])
    /\ UNCHANGED <<replica, client, up, vfile, credentials, lastWorkerId, file, handler, response, clearing,
                   pushes, cache, synced>>

\* restart of the verification service: a new VerificationStorage, which
\* has synced nothing, runs initialize() on the service's backing medium
VerifierRestart ==
    /\ cache' = verifierInitialize(<< >>, vfile).cache
    /\ vfile' = verifierInitialize(<< >>, vfile).file
    /\ synced' = << >>
    /\ UNCHANGED <<replica, client, up, credentials, lastWorkerId, file, handler, response, clearing,
                   pushes, verdict>>

\* storage.initialize() is called on the issuance store
StoreInitialize(outcome) ==
    /\ LET init == initializeOn(credentials, lastWorkerId, file, outcome)
       IN  /\ credentials' = init.credentials
           /\ lastWorkerId' = init.lastWorkerId
           /\ file' = init.file
           /\ up' = ~init.failed
    /\ UNCHANGED <<replica, client, vfile, handler, response, clearing, pushes, cache, synced, verdict>>

\* the process ends (SIGTERM, SIGINT, an uncaught exception): requests in
\* flight get no answer, and the next process constructs a new
\* CredentialStorage, whose Map is empty and whose counter is 0
ProcessExit ==
    /\ up
    /\ up' = FALSE
    /\ credentials' = EmptyMap
    /\ lastWorkerId' = 0
    /\ handler' = [r \in Reqs |->
                     IF handler[r].pc \in {"idle", "done"} THEN handler[r]
                     ELSE [Done(handler[r]) EXCEPT !.pc = "aborted"]]
    /\ clearing' = IF clearing.pc \in {"idle", "done"} THEN clearing
                   ELSE [pc |-> "done", snapshot |-> Undefined]
    /\ UNCHANGED <<replica, client, vfile, file, response, pushes, cache, synced, verdict>>

\* (mutant) the server listens without initialize()
startServerSkipsInitialize(outcome) ==
    /\ ~up
    /\ up' = TRUE
    /\ UNCHANGED <<replica, client, vfile, credentials, lastWorkerId, file, handler, response,
                   clearing, pushes, cache, synced, verdict>>

\* startServer(): await storage.initialize(), then app.listen; when
\* initialize() rejects, process.exit(1)
startServer(outcome) ==
    /\ ~up
    /\ StoreInitialize(outcome)

\* storage.initialize() is called on the verification cache
VerifierInitialize ==
    /\ LET init == verifierInitialize(cache, vfile)
       IN  /\ cache' = init.cache
           /\ vfile' = init.file
           /\ up' = ~init.failed
    /\ UNCHANGED <<replica, client, credentials, lastWorkerId, file, handler, response, clearing,
                   pushes, synced, verdict>>

(***************************************************************************)
(* The frontend client (frontend/src/services/api.ts)                      *)
(***************************************************************************)
ServiceNames == {"Issuance", "Verification"}

\* ISSUANCE_API_URL and VERIFICATION_API_URL
BaseURL(serviceName) ==
    IF serviceName = "Issuance" THEN "http://localhost:3001" ELSE "http://localhost:3002"

\* (mutant) the branch of a request without response only logs and returns
handleApiErrorLogsNetworkError(error, serviceName) ==
    IF error.hasResponse
    THEN [threw |-> TRUE,
          message |-> IF error.hasData /\ error.hasMessage /\ error.dataMessage # ""
                      THEN <<error.dataMessage>>
                      ELSE <<"Server error: ", error.status>>]
    ELSE IF error.hasRequest
    THEN [threw |-> FALSE, message |-> << >>]
    ELSE [threw |-> TRUE,
          message |-> IF error.message # "" THEN <<error.message>>
                      ELSE <<"Unknown error occurred with ", serviceName, " service">>]

\* handleApiError(error, serviceName): the message of the Error it throws.
\* `a || b` takes b when a is undefined or the empty string; `?.` gives
\* undefined when data, or config, is missing.
handleApiError(error, serviceName) ==
    IF error.hasResponse
    THEN [threw |-> TRUE,
          message |-> IF error.hasData /\ error.hasMessage /\ error.dataMessage # ""
                      THEN <<error.dataMessage>>
                      ELSE <<"Server error: ", error.status>>]
    ELSE IF error.hasRequest
    THEN [threw |-> TRUE,
          message |-> <<serviceName, " service is unavailable",
                        ". Please check if the service is running on ",
                        IF error.hasConfig THEN error.baseURL ELSE "undefined">>]
    ELSE [threw |-> TRUE,
          message |-> IF error.message # "" THEN <<error.message>>
                      ELSE <<"Unknown error occurred with ", serviceName, " service">>]

\* the body of issueCredential and of verifyCredential: response.data when
\* the post resolves; otherwise handleApiError, and `throw error` after it
credentialServiceCall(serviceName, outcome) ==
    IF outcome.ok
    THEN [settled |-> "resolved", value |-> Some(outcome.data), message |-> << >>]
    ELSE LET thrown == handleApiError(outcome.error, serviceName)
         IN  IF thrown.threw
             THEN [settled |-> "rejected", value |-> Undefined, message |-> thrown.message]
             ELSE [settled |-> "rejected", value |-> Undefined,
                   message |-> <<outcome.error.message>>]

\* credentialService.issueCredential and credentialService.verifyCredential
clientIssueCredential(outcome) == credentialServiceCall("Issuance", outcome)
clientVerifyCredential(outcome) == credentialServiceCall("Verification", outcome)

IdleClient == [pc |-> "idle", service |-> "Issuance", outcome |-> Undefined,
               result |-> Undefined]

\* the UI calls issueCredential or verifyCredential: the post is sent
ClientCall(serviceName) ==
    /\ client.pc = "idle"
    /\ client' = [client EXCEPT !.pc = "pending", !.service = serviceName]
    /\ UNCHANGED <<replica, up, vfile, credentials, lastWorkerId, file, handler, response,
                   clearing, pushes, cache, synced, verdict>>

\* the post resolves or rejects, and the call settles
ClientSettle(outcome) ==
    /\ client.pc = "pending"
    /\ client' = [client EXCEPT
                    !.pc = "settled",
                    !.outcome = Some(outcome),
                    !.result = Some(IF client.service = "Issuance"
                                    THEN clientIssueCredential(outcome)
                                    ELSE clientVerifyCredential(outcome))]
    /\ UNCHANGED <<replica, up, vfile, credentials, lastWorkerId, file, handler, response,
                   clearing, pushes, cache, synced, verdict>>

(***************************************************************************)
(* A second instance of the issuance service: its own process, with its    *)
(* own CredentialStorage and its own backing medium.  It handles its       *)
(* requests one at a time and none of its writes fails.                    *)
(***************************************************************************)
\* new CredentialStorage() after initialize() on a medium of its own
NewInstance ==
    [credentials |-> EmptyMap, lastWorkerId |-> 0,
     file |-> FileOf(Serializable(EmptyMap, 0)),
     body |-> [hasData |-> FALSE, data |-> << >>], response |-> << >>]

\* the response of the second instance
ReplicaResponse(status, workerId, credential) ==
    [status |-> status, message |-> Message(status, workerId),
     workerId |-> workerId, credential |-> credential]

\* (mutant) the duplicate check and the counter are those of the first
\* instance's store
ReplicaIssueOnSharedStore(body, now, rnd) ==
    /\ Len(replica.response) < MaxReqs
    /\ IF ~body.hasData
       THEN /\ replica' = [replica EXCEPT
                             !.body = body,
                             !.response = Append(@, ReplicaResponse(400, Undefined, Undefined))]
            /\ UNCHANGED pushes
       ELSE IF credentialExists(getAllCredentials(credentials)
                                  \cup getAllCredentials(replica.credentials), body.data)
       THEN /\ replica' = [replica EXCEPT
                             !.body = body,
                             !.response = Append(@, ReplicaResponse(409, Undefined, Undefined))]
            /\ UNCHANGED pushes
       ELSE LET next == getNextWorkerId(lastWorkerId + replica.lastWorkerId)
                id == generateCredentialId(now, rnd)
                credential == NewCredential(id, body.data, now, next.workerId)
                stored == MapSet(replica.credentials, id, credential)
            IN  /\ replica' = [credentials |-> stored,
                               lastWorkerId |-> replica.lastWorkerId + 1,
                               file |-> FileOf(Serializable(stored, replica.lastWorkerId + 1)),
                               body |-> body,
                               response |-> Append(replica.response,
                                   ReplicaResponse(201, Some(next.workerId), Some(credential)))]
                /\ pushes' = pushes \cup {[req |-> 0, body |-> SyncBody(credential)]}
    /\ UNCHANGED <<client, up, vfile, credentials, lastWorkerId, file, handler, response,
                   clearing, cache, synced, verdict>>

\* POST /issue on the second instance, from the request to the response:
\* validation, the duplicate check on its own store, getNextWorkerId() on its
\* own counter, issueCredential with save() on its own medium, the push
ReplicaIssue(body, now, rnd) ==
    /\ Len(replica.response) < MaxReqs
    /\ IF ~body.hasData
       THEN /\ replica' = [replica EXCEPT
                             !.body = body,
                             !.response = Append(@, ReplicaResponse(400, Undefined, Undefined))]
            /\ UNCHANGED pushes
       ELSE IF credentialExists(getAllCredentials(replica.credentials), body.data)
       THEN /\ replica' = [replica EXCEPT
                             !.body = body,
                             !.response = Append(@, ReplicaResponse(409, Undefined, Undefined))]
            /\ UNCHANGED pushes
       ELSE LET next == getNextWorkerId(replica.lastWorkerId)
                id == generateCredentialId(now, rnd)
                credential == NewCredential(id, body.data, now, next.workerId)
                stored == MapSet(replica.credentials, id, credential)
            IN  /\ replica' = [credentials |-> stored,
                               lastWorkerId |-> next.lastWorkerId,
                               file |-> FileOf(Serializable(stored, next.lastWorkerId)),
                               body |-> body,
                               response |-> Append(replica.response,
                                   ReplicaResponse(201, Some(next.workerId), Some(credential)))]
                /\ pushes' = pushes \cup {[req |-> 0, body |-> SyncBody(credential)]}
    /\ UNCHANGED <<client, up, vfile, credentials, lastWorkerId, file, handler, response,
                   clearing, cache, synced, verdict>>

(***************************************************************************)
(* Inputs                                                                  *)
(***************************************************************************)
\* all sequences over S of length 0..n
RECURSIVE SeqsUpTo(_, _)
SeqsUpTo(S, n) ==
    IF n = 0 THEN {<< >>}
    ELSE LET shorter == SeqsUpTo(S, n - 1)
         IN  shorter \cup {Append(q, x) : q \in {t \in shorter : Len(t) = n - 1}, x \in S}

AllIds == {generateCredentialId(t, rnd) : t \in 0..MaxClock, rnd \in 1..MaxRand}

\* Date.now() and Math.random() at a call of generateCredentialId.  Ids are
\* opaque: all that matters is whether the new id equals one generated
\* before, so the draw is one that gives an id generated before or the
\* first id not generated yet.
Draws == (0..MaxClock) \X (1..MaxRand)
Generated == {handler[r].credential[1].id : r \in {q \in Reqs : handler[q].credential # Undefined}}
Earlier(d, e) == d[1] < e[1] \/ (d[1] = e[1] /\ d[2] < e[2])
FreshDraws ==
    {d \in Draws :
        /\ generateCredentialId(d[1], d[2]) \notin Generated
        /\ \A e \in Draws : Earlier(e, d) => generateCredentialId(e[1], e[2]) \in Generated}
IdDraws ==
    {d \in Draws : generateCredentialId(d[1], d[2]) \in Generated} \cup FreshDraws

\* a credential no store ever issued
Fabricated ==
    [id |-> generateCredentialId(0, 1), data |-> PAB, issuedAt |-> 0,
     issuedBy |-> WorkerIdStr(1), status |-> "pending"]

\* what a caller of /sync posts in the running system: something that is not
\* an array, the answer of the issuance service's GET /credentials, or a
\* batch it made up
SystemSyncBodies ==
    {[isArray |-> FALSE, credentials |-> << >>],
     [isArray |-> TRUE, credentials |-> SeqOf(getAllCredentials(credentials))],
     [isArray |-> TRUE, credentials |-> <<Fabricated>>]}

\* the credentials of the verification service's tests: two ids, every
\* status, and issued credentials whose payloads differ only in key order
TestIds == {generateCredentialId(0, 1), generateCredentialId(1, 1)}
TestCredentials ==
    {[id |-> i, data |-> PAB, issuedAt |-> 0, issuedBy |-> WorkerIdStr(1), status |-> st] :
        i \in TestIds, st \in {"issued", "pending", "failed"}}
      \cup {[id |-> i, data |-> PBA, issuedAt |-> 0, issuedBy |-> WorkerIdStr(2),
              status |-> "issued"] : i \in TestIds}

\* arrays that hold a null: alone, and after a credential
MalformedBatches == {<<Null>>} \cup {<<c, Null>> : c \in TestCredentials}

TestSyncBodies ==
    {[isArray |-> FALSE, credentials |-> << >>]}
      \cup {[isArray |-> TRUE, credentials |-> b] : b \in SeqsUpTo(TestCredentials, MaxBatch)}
      \cup {[isArray |-> TRUE, credentials |-> b] : b \in MalformedBatches}

VerifyRequests ==
    {[hasId |-> FALSE, id |-> generateCredentialId(0, 1), hasData |-> FALSE, data |-> << >>]}
      \cup {[hasId |-> TRUE, id |-> i, hasData |-> hd, data |-> PAB] :
              i \in AllIds, hd \in BOOLEAN}
      \cup {[hasId |-> FALSE, id |-> generateCredentialId(0, 1), hasData |-> TRUE, data |-> p] :
              p \in Payloads}

Init ==
    /\ credentials = EmptyMap
    /\ lastWorkerId = 0
    /\ file = FileOf(Serializable(EmptyMap, 0))
    /\ handler = [r \in Reqs |-> IdleHandler]
    /\ response = [r \in Reqs |-> << >>]
    /\ clearing = [pc |-> "idle", snapshot |-> Undefined]
    /\ pushes = {}
    /\ cache = << >>
    /\ synced = << >>
    /\ verdict = << >>
    /\ vfile = FileAbsent
    /\ up = TRUE
    /\ client = IdleClient
    /\ replica = NewInstance

(***************************************************************************)
(* The two services together: concurrent requests, pushes delivered, lost  *)
(* or reordered, other callers of /sync, clearAll and restarts.            *)
(***************************************************************************)
Next ==
    \/ \E r \in Reqs, body \in Bodies : Receive(r, body)
    \/ \E r \in Reqs : Duplicate(r)
    \/ \E r \in Reqs, d \in IdDraws : Issue(r, d[1], d[2])
    \/ \E r \in Reqs : SaveSerialize(r)
    \/ \E r \in Reqs : SaveFail(r)
    \/ \E r \in Reqs : WriteOk(r)
    \/ \E r \in Reqs, truncated \in BOOLEAN : WriteFail(r, truncated)
    \/ ClearAll
    \/ ClearSerialize
    \/ \E ok \in BOOLEAN : ClearWrite(ok)
    \/ Restart
    \/ \E m \in pushes : DeliverPush(m)
    \/ \E m \in pushes : LosePush(m)
    \/ \E body \in SystemSyncBodies : SyncCall(body)
    \/ VerifierRestart

Spec == Init /\ [][Next]_vars

(***************************************************************************)
(* Concurrent POST /issue requests on one store and their pushes; no       *)
(* restart, no clearAll, no other caller of /sync.                         *)
(***************************************************************************)
IssueNext ==
    \/ \E r \in Reqs, body \in Bodies : Receive(r, body)
    \/ \E r \in Reqs : Duplicate(r)
    \/ \E r \in Reqs, d \in IdDraws : Issue(r, d[1], d[2])
    \/ \E r \in Reqs : SaveSerialize(r)
    \/ \E r \in Reqs : SaveFail(r)
    \/ \E r \in Reqs : WriteOk(r)
    \/ \E r \in Reqs, truncated \in BOOLEAN : WriteFail(r, truncated)
    \/ \E m \in pushes : DeliverPush(m)
    \/ \E m \in pushes : LosePush(m)

SpecIssue == Init /\ [][IssueNext]_vars

\* The issuance service while the verification service is unreachable or
\* never answers: a push fails or stays in flight for ever, none is
\* delivered.  The handlers' own steps and their storage I/O are scheduled
\* fairly; nothing is assumed of the pushes.
HandlerStep(r) ==
    \/ Duplicate(r)
    \/ \E d \in IdDraws : Issue(r, d[1], d[2])
    \/ SaveSerialize(r)
    \/ SaveFail(r)
    \/ WriteOk(r)
    \/ \E truncated \in BOOLEAN : WriteFail(r, truncated)

DownNext ==
    \/ \E r \in Reqs, body \in Bodies : Receive(r, body)
    \/ \E r \in Reqs : Duplicate(r)
    \/ \E r \in Reqs, d \in IdDraws : Issue(r, d[1], d[2])
    \/ \E r \in Reqs : SaveSerialize(r)
    \/ \E r \in Reqs : SaveFail(r)
    \/ \E r \in Reqs : WriteOk(r)
    \/ \E r \in Reqs, truncated \in BOOLEAN : WriteFail(r, truncated)
    \/ \E m \in pushes : LosePush(m)

FairDown == Init /\ [][DownNext]_vars /\ \A r \in Reqs : WF_vars(HandlerStep(r))

(***************************************************************************)
(* Concurrent POST /issue requests when nothing fails: every directory     *)
(* check and every write succeeds and no generated id repeats.  The writes *)
(* of different requests complete in any order.                            *)
(***************************************************************************)
RaceNext ==
    \/ \E r \in Reqs, body \in Bodies : Receive(r, body)
    \/ \E r \in Reqs : Duplicate(r)
    \/ \E r \in Reqs, d \in FreshDraws : Issue(r, d[1], d[2])
    \/ \E r \in Reqs : SaveSerialize(r)
    \/ \E r \in Reqs : WriteOk(r)
    \/ \E m \in pushes : DeliverPush(m)
    \/ \E m \in pushes : LosePush(m)

SpecRace == Init /\ [][RaceNext]_vars

\* POST /verify {id}
VerifyById(id) == [hasId |-> TRUE, id |-> id, hasData |-> FALSE, data |-> PAB]

\* The same, with clients that call /verify with an id.
RaceVerifyNext ==
    \/ RaceNext
    \/ \E id \in AllIds : VerifyCall(VerifyById(id))

SpecRaceVerify == Init /\ [][RaceVerifyNext]_vars

(***************************************************************************)
(* The issuance service alone: concurrent POST /issue requests with        *)
(* failing writes, clearAll and restarts at any moment.  No id is drawn    *)
(* twice, and the pushes are started and stay in flight.                   *)
(***************************************************************************)
StoreNext ==
    \/ \E r \in Reqs, body \in Bodies : Receive(r, body)
    \/ \E r \in Reqs : Duplicate(r)
    \/ \E r \in Reqs, d \in FreshDraws : Issue(r, d[1], d[2])
    \/ \E r \in Reqs : SaveSerialize(r)
    \/ \E r \in Reqs : SaveFail(r)
    \/ \E r \in Reqs : WriteOk(r)
    \/ \E r \in Reqs, truncated \in BOOLEAN : WriteFail(r, truncated)
    \/ ClearAll
    \/ ClearSerialize
    \/ \E ok \in BOOLEAN : ClearWrite(ok)
    \/ Restart

SpecStore == Init /\ [][StoreNext]_vars

(***************************************************************************)
(* Two instances of the issuance service: each handles its requests one at *)
(* a time, nothing fails, and the first instance repeats no id.  Their     *)
(* pushes are started and stay in flight.                                  *)
(***************************************************************************)
TwoNext ==
    \/ \E r \in Reqs, body \in Bodies :
          (\A q \in Reqs : handler[q].pc \in {"idle", "done"}) /\ Receive(r, body)
    \/ \E r \in Reqs : Duplicate(r)
    \/ \E r \in Reqs, d \in FreshDraws : Issue(r, d[1], d[2])
    \/ \E r \in Reqs : SaveSerialize(r)
    \/ \E r \in Reqs : WriteOk(r)
    \/ \E body \in Bodies, d \in Draws : ReplicaIssue(body, d[1], d[2])

SpecTwo == Init /\ [][TwoNext]_vars

(***************************************************************************)
(* The store's operations one at a time: a request is received, clearAll   *)
(* is called or the service restarts only when nothing else is in flight.  *)
(***************************************************************************)
Quiet ==
    /\ \A r \in Reqs : handler[r].pc \in {"idle", "done", "aborted"}
    /\ clearing.pc \in {"idle", "done"}

SeqNext ==
    \/ \E r \in Reqs, body \in Bodies : Quiet /\ Receive(r, body)
    \/ \E r \in Reqs : Duplicate(r)
    \/ \E r \in Reqs, d \in IdDraws : Issue(r, d[1], d[2])
    \/ \E r \in Reqs : SaveSerialize(r)
    \/ \E r \in Reqs : SaveFail(r)
    \/ \E r \in Reqs : WriteOk(r)
    \/ \E r \in Reqs, truncated \in BOOLEAN : WriteFail(r, truncated)
    \/ Quiet /\ ClearAll
    \/ ClearSerialize
    \/ \E ok \in BOOLEAN : ClearWrite(ok)
    \/ Quiet /\ Restart
    \/ \E m \in pushes : DeliverPush(m)
    \/ \E m \in pushes : LosePush(m)

SpecSeq == Init /\ [][SeqNext]_vars

(***************************************************************************)
(* The issuance service and its process: requests handled one at a time,   *)
(* writes that fail or leave the file truncated, the process ending at any *)
(* moment and startServer() bringing it up again.  No id is drawn twice.   *)
(***************************************************************************)
BootNext ==
    \/ \E r \in Reqs, body \in Bodies : up /\ Quiet /\ Receive(r, body)
    \/ \E r \in Reqs : Duplicate(r)
    \/ \E r \in Reqs, d \in FreshDraws : Issue(r, d[1], d[2])
    \/ \E r \in Reqs : SaveSerialize(r)
    \/ \E r \in Reqs : WriteOk(r)
    \/ \E r \in Reqs, truncated \in BOOLEAN : WriteFail(r, truncated)
    \/ ProcessExit
    \/ \E outcome \in WriteOutcomes : startServer(outcome)

SpecBoot == Init /\ [][BootNext]_vars

(***************************************************************************)
(* Both services in normal operation: requests one at a time, every write  *)
(* succeeds, pushes are delivered or lost, clients call /verify.           *)
(***************************************************************************)
NormalNext ==
    \/ \E r \in Reqs, body \in Bodies : Quiet /\ Receive(r, body)
    \/ \E r \in Reqs : Duplicate(r)
    \/ \E r \in Reqs, d \in IdDraws : Issue(r, d[1], d[2])
    \/ \E r \in Reqs : SaveSerialize(r)
    \/ \E r \in Reqs : WriteOk(r)
    \/ \E m \in pushes : DeliverPush(m)
    \/ \E m \in pushes : LosePush(m)
    \/ \E request \in VerifyRequests : VerifyCall(request)

SpecNormal == Init /\ [][NormalNext]_vars

(***************************************************************************)
(* The verification service alone, with any caller of /sync and /verify.   *)
(***************************************************************************)
CacheNext ==
    \/ \E body \in TestSyncBodies : SyncCall(body)
    \/ \E request \in VerifyRequests : VerifyCall(request)
    \/ VerifierRestart

SpecCache == Init /\ [][CacheNext]_vars

(***************************************************************************)
(* initialize() alone.  The store, or the cache, holds what a snapshot can  *)
(* hold, the backing medium is in any state, and initialize() is called,   *)
(* any number of times.                                                    *)
(***************************************************************************)
\* what a snapshot can hold: credentials under their ids
StartMaps ==
    UNION {{m \in [S -> TestCredentials] : \A k \in S : m[k].id = k} : S \in SUBSET TestIds}

StartMedia ==
    {FileAbsent, FileCorrupt, FileUnreadable}
      \cup {FileOf(Serializable(m, last)) : m \in StartMaps, last \in 0..MaxReqs}

InitStoreStart ==
    /\ credentials \in StartMaps
    /\ lastWorkerId \in 0..MaxReqs
    /\ file \in StartMedia
    /\ handler = [r \in Reqs |-> IdleHandler]
    /\ response = [r \in Reqs |-> << >>]
    /\ clearing = [pc |-> "idle", snapshot |-> Undefined]
    /\ pushes = {}
    /\ cache = << >>
    /\ synced = << >>
    /\ verdict = << >>
    /\ vfile = FileAbsent
    /\ up = FALSE
    /\ client = IdleClient
    /\ replica = NewInstance

StoreStartNext == \E outcome \in WriteOutcomes : StoreInitialize(outcome)

SpecStoreStart == InitStoreStart /\ [][StoreStartNext]_vars

InitCacheStart ==
    /\ credentials = EmptyMap
    /\ lastWorkerId = 0
    /\ file = FileOf(Serializable(EmptyMap, 0))
    /\ handler = [r \in Reqs |-> IdleHandler]
    /\ response = [r \in Reqs |-> << >>]
    /\ clearing = [pc |-> "idle", snapshot |-> Undefined]
    /\ pushes = {}
    /\ cache \in {SeqOf(FromMap(m)) : m \in StartMaps}
    /\ synced = << >>
    /\ verdict = << >>
    /\ vfile \in StartMedia
    /\ up = FALSE
    /\ client = IdleClient
    /\ replica = NewInstance

CacheStartNext == VerifierInitialize

SpecCacheStart == InitCacheStart /\ [][CacheStartNext]_vars

(***************************************************************************)
(* The frontend client alone: one call, and every way its post can end.    *)
(***************************************************************************)
\* the messages the two services send with an error status
ServerMessages ==
    {Message(400, Undefined)[1], Message(409, Undefined)[1], Message(500, Undefined)[1],
     "Invalid request: either credential ID or data is required"}

NoError ==
    [hasResponse |-> FALSE, status |-> 0, hasData |-> FALSE, hasMessage |-> FALSE,
     dataMessage |-> "", hasRequest |-> FALSE, hasConfig |-> FALSE, baseURL |-> "",
     message |-> ""]

\* the errors axios rejects with: the server answered with an error status
\* (with or without a body, with or without a message in it), the request
\* was sent and got no answer, or the request could not be set up
AxiosErrors(serviceName) ==
    {[NoError EXCEPT !.hasResponse = TRUE, !.status = st, !.hasData = body[1],
                     !.hasMessage = body[2], !.dataMessage = body[3],
                     !.hasRequest = rq, !.hasConfig = TRUE,
                     !.baseURL = BaseURL(serviceName),
                     !.message = "Request failed"] :
        st \in {400, 404, 409, 500}, rq \in BOOLEAN,
        body \in {<<FALSE, FALSE, "">>, <<TRUE, FALSE, "">>, <<TRUE, TRUE, "">>}
                   \cup {<<TRUE, TRUE, m>> : m \in ServerMessages}}
      \cup {[NoError EXCEPT !.hasRequest = TRUE, !.hasConfig = cf,
                            !.baseURL = IF cf THEN BaseURL(serviceName) ELSE "",
                            !.message = m] :
               cf \in BOOLEAN, m \in {"Network Error", "timeout of 10000ms exceeded"}}
      \cup {[NoError EXCEPT !.message = m] : m \in {"", "Request aborted"}}

\* the ways the post ends
Outcomes(serviceName) ==
    {[ok |-> TRUE, data |-> [success |-> TRUE, isValid |-> v], error |-> NoError] :
        v \in BOOLEAN}
      \cup {[ok |-> FALSE, data |-> [success |-> FALSE, isValid |-> FALSE], error |-> e] :
               e \in AxiosErrors(serviceName)}

ClientNext ==
    \/ \E serviceName \in ServiceNames : ClientCall(serviceName)
    \/ \E outcome \in Outcomes(client.service) : ClientSettle(outcome)

SpecClient == Init /\ [][ClientNext]_vars

(***************************************************************************)
(* Properties                                                              *)
(***************************************************************************)
Range(map) == {map[k] : k \in DOMAIN map}

\* the last response a request got
Answered(r, status) == response[r] # << >> /\ response[r][Len(response[r])].status = status

\* what a restart at this moment loads from the backing medium
Reloaded == initialize(file).credentials

\* two payloads are structurally equal: the same keys with the same values,
\* in whatever order the keys were written
DeepEqual(a, b) == {a[i] : i \in DOMAIN a} = {b[i] : i \in DOMAIN b}

\* C1: with requests handled one at a time, the store never holds two
\* credentials with status 'issued' whose data payloads are identical
\* (structurally: the same fields with the same values).
C1_NoDuplicateIssued ==
    \A i, j \in DOMAIN credentials :
        (/\ i # j
         /\ credentials[i].status = "issued"
         /\ credentials[j].status = "issued")
        => ~DeepEqual(credentials[i].data, credentials[j].data)

\* C2: whenever a client has received 201 for a credential c, the persisted
\* snapshot contains c: a restart followed by getCredential(c.id) returns c.
C2_DurableBeforeSuccess ==
    \A r \in Reqs :
        Answered(r, 201) =>
            LET c == response[r][Len(response[r])].credential[1]
            IN  getCredential(Reloaded, c.id) = Some(c)

\* C3: at the moment issueCredential has returned c, a restart followed by
\* getCredential(c.id) returns a credential equal to c in every field.
C3_RoundTrip ==
    [][\A r \in Reqs :
          (handler[r].pc = "write" /\ handler'[r].pc = "done" /\ Answered(r, 201)')
          => getCredential(initialize(file').credentials, handler[r].credential[1].id)
               = Some(handler[r].credential[1])]_vars

\* the service restarted after a 201 and after a failed issuance: the store
\* has lost the credential of the failed request, which was in memory only,
\* and returns the credential of the 201
C3_Witness ==
    \E r, q \in Reqs :
        /\ Answered(r, 201)
        /\ Answered(q, 500)
        /\ handler[q].credential # Undefined
        /\ handler[q].credential[1].id \notin DOMAIN credentials
        /\ getCredential(credentials, handler[r].credential[1].id) = handler[r].credential

\* C4: when POST /issue answers 400, 409 or 500, neither the in-memory set
\* nor the persisted snapshot contains a credential created by that request.
C4_NothingOnError ==
    \A r \in Reqs :
        (Answered(r, 400) \/ Answered(r, 409) \/ Answered(r, 500))
        => \/ handler[r].credential = Undefined
           \/ /\ handler[r].credential[1] \notin Range(credentials)
              /\ handler[r].credential[1] \notin Range(Reloaded)

\* the push of request r
PushOf(r) == [req |-> r, body |-> SyncBody(handler[r].credential[1])]

\* C5: the responses to POST /issue do not depend on what the pushes do: a
\* step that resolves a push (delivered, failed, lost) changes no response
\* and nothing of the issuance service, and the step that starts a push is
\* the step that answers 201, before the push has any outcome.
C5_ResponsesIgnorePushes ==
    [][/\ (\E m \in pushes : m \notin pushes')
          => UNCHANGED <<credentials, lastWorkerId, file, handler, response, clearing>>
       /\ \A m \in pushes' \ pushes :
            /\ Answered(m.req, 201)'
            /\ Len(response'[m.req]) = 1]_vars

\* two requests were answered 201; the push of one is still in flight and
\* the push of the other failed: the verifier has nothing
C5_Witness ==
    \E r, q \in Reqs :
        /\ r # q
        /\ Answered(r, 201)
        /\ Answered(q, 201)
        /\ PushOf(r) \in pushes
        /\ PushOf(q) \notin pushes
        /\ cache = << >>

\* C6: every POST /issue request eventually gets exactly one response,
\* whatever happens to the pushes: no request is ever answered twice, and
\* from some point on every request that was received has its one response
\* (a request once received stays received, so this is: each request is
\* answered some time after it was received).
C6_ExactlyOneResponse ==
    /\ [](\A r \in Reqs : Len(response[r]) <= 1)
    /\ <>[](\A r \in Reqs : handler[r].pc # "idle" => Len(response[r]) = 1)

\* a request was answered while an earlier push is still in flight
C6_Witness ==
    \E r, q \in Reqs :
        /\ r # q
        /\ Answered(r, 201)
        /\ PushOf(r) \in pushes
        /\ Len(response[q]) = 1
        /\ handler[q].pc = "done"

\* C7: every credential in the verification cache is a credential of the
\* issuance store's persisted snapshot.
C7_CacheSubsetOfPersisted ==
    \A c \in cacheCredentials(cache) : c \in Range(Reloaded)

\* the ids of a batch, and the last credential of the batch with an id
BatchIds(batch) == {batch[i].id : i \in 1..Len(batch)}
LastWith(batch, id) ==
    batch[CHOOSE i \in 1..Len(batch) :
            batch[i].id = id /\ \A j \in (i + 1)..Len(batch) : batch[j].id # id]

\* C8: after syncCredentials(batch) the cache holds exactly the credentials
\* of the batch, keyed by id (for an id that occurs more than once, the last
\* one), and nothing that was there before: verifyCredentialById is valid
\* for exactly the ids whose credential in the batch is 'issued'.
C8_FullReplace ==
    (synced # << >> /\ synced[1].status = 200) =>
        LET batch == synced[1].body.credentials
        IN  /\ CacheIds(cache) = BatchIds(batch)
            /\ \A id \in BatchIds(batch) :
                  CacheGet(cache, id) = Some(LastWith(batch, id))
            /\ \A id \in AllIds :
                  LET result == verifyCredentialById(cache, id)
                  IN  IF id \in BatchIds(batch) /\ LastWith(batch, id).status = "issued"
                      THEN /\ result.isValid
                           /\ result.credential = Some(LastWith(batch, id))
                      ELSE ~result.isValid

\* a credential that verified as valid by id is gone after a later sync
\* with a batch that holds one other issued credential
C8_Witness ==
    /\ synced # << >>
    /\ synced[1].status = 200
    /\ verdict # << >>
    /\ verdict[1].request.hasId
    /\ verdict[1].response.isValid
    /\ CacheGet(cache, verdict[1].request.id) = Undefined
    /\ ~verifyCredentialById(cache, verdict[1].request.id).isValid
    /\ Len(cache) = 1
    /\ verifyCredentialById(cache, cache[1][1]).isValid

\* the fields of two credentials agree
SameFields(a, b) ==
    /\ a.id = b.id
    /\ a.data = b.data
    /\ a.issuedAt = b.issuedAt
    /\ a.issuedBy = b.issuedBy
    /\ a.status = b.status

\* C9: verifyCredentialById(id) is valid exactly when the cache holds a
\* credential under that id whose status is 'issued', and then returns that
\* credential's fields; otherwise it is invalid and returns no credential.
C9_VerifyById ==
    \A id \in AllIds :
        LET result == verifyCredentialById(cache, id)
            held == {i \in 1..Len(cache) : cache[i][1] = id /\ cache[i][2].status = "issued"}
        IN  IF held # {}
            THEN /\ result.isValid
                 /\ result.credential # Undefined
                 /\ \E i \in held : SameFields(result.credential[1], cache[i][2])
            ELSE /\ ~result.isValid
                 /\ result.credential = Undefined

\* POST /verify by id was answered invalid for an id under which the cache
\* holds a credential that is not 'issued', next to an issued one
C9_Witness ==
    /\ verdict # << >>
    /\ verdict[1].request.hasId
    /\ ~verdict[1].response.isValid
    /\ CacheGet(cache, verdict[1].request.id) # Undefined
    /\ CacheGet(cache, verdict[1].request.id)[1].status \in {"pending", "failed"}
    /\ \E c \in cacheCredentials(cache) : c.status = "issued"

\* C10: verifyCredentialByData(d) is valid exactly when some cached
\* credential has status 'issued' and data equal to d (structurally), and
\* returns such a credential; a non-issued credential with the same data
\* neither matches nor hides an issued one.  Otherwise it is invalid with no
\* credential.
C10_VerifyByData ==
    \A d \in Payloads :
        LET result == verifyCredentialByData(cache, d)
            matching == {c \in cacheCredentials(cache) :
                            c.status = "issued" /\ DeepEqual(c.data, d)}
        IN  IF matching # {}
            THEN /\ result.isValid
                 /\ result.credential # Undefined
                 /\ \E c \in matching : SameFields(result.credential[1], c)
            ELSE /\ ~result.isValid
                 /\ result.credential = Undefined

\* C11: a POST /issue whose data equals (structurally) the data of a
\* credential already in the store is answered 409, and the step that
\* decides it leaves the credential set, the worker counter, the persisted
\* snapshot and the pushes as they were.
C11_DuplicateRejected ==
    [][\A r \in Reqs :
          (/\ handler[r].pc = "check"
           /\ handler'[r].pc \notin {"check", "aborted"}
           /\ \E c \in Range(credentials) : DeepEqual(c.data, handler[r].body.data))
          => /\ Answered(r, 409)'
             /\ UNCHANGED <<credentials, lastWorkerId, file, pushes>>]_vars

\* C12: a POST /issue with no data payload is answered 400 in the step that
\* receives it, and that step leaves the credential set, the worker
\* counter, the persisted snapshot and the pushes as they were; no push
\* ever belongs to a request answered 400.
C12_NoDataRejected ==
    /\ [][\A r \in Reqs :
             (handler[r].pc = "idle" /\ handler'[r].pc # "idle" /\ ~handler'[r].body.hasData)
             => /\ Len(response'[r]) = 1
                /\ Answered(r, 400)'
                /\ handler'[r].pc = "done"
                /\ UNCHANGED <<credentials, lastWorkerId, file, pushes>>]_vars
    /\ [](\A m \in pushes : ~Answered(m.req, 400))

\* a request without data was answered 400 while the store holds a
\* credential whose push is in flight
C12_Witness ==
    \E r, q \in Reqs :
        /\ Answered(r, 400)
        /\ ~handler[r].body.hasData
        /\ Answered(q, 201)
        /\ PushOf(q) \in pushes
        /\ lastWorkerId = 1
        /\ Range(credentials) = {handler[q].credential[1]}

\* the requests that have called getNextWorkerId()
Called == {r \in Reqs : handler[r].credential # Undefined}

\* C13: on a fresh store the n-th call of getNextWorkerId() returns
\* worker-n: each call returns the id one above the number of calls made
\* before it, and no two calls return the same id.
C13_WorkerIdsInSequence ==
    /\ [][\A r \in Reqs :
             (handler[r].pc = "check" /\ handler'[r].pc = "save")
             => handler'[r].workerId = WorkerIdStr(Cardinality(Called) + 1)]_vars
    /\ [](\A r, q \in Called : r # q => handler[r].workerId # handler[q].workerId)
    /\ [](lastWorkerId = Cardinality(Called))

\* every request has called getNextWorkerId(), the request received last
\* called it first
C13_Witness ==
    /\ Called = Reqs
    /\ handler[MaxReqs].workerId = WorkerIdStr(1)
    /\ handler[1].workerId = WorkerIdStr(MaxReqs)

\* the response request r got in this step, if it got one
Sent(r) == response[r][Len(response[r])]

C15_CounterMonotone ==
    [][lastWorkerId' < lastWorkerId
          => (clearing.pc = "idle" /\ clearing'.pc = "save" /\ lastWorkerId' = 0)]_vars

\* C16: every call of issueCredential assigns an id no credential issued
\* earlier by this store has, so the call overwrites no credential and the
\* credential set grows by exactly one.
C16_FreshIds ==
    [][\A r \in Reqs :
          (handler[r].pc = "check" /\ handler'[r].pc = "save")
          => LET id == handler'[r].credential[1].id
             IN  /\ id \notin Generated
                 /\ id \notin DOMAIN credentials
                 /\ \A k \in DOMAIN credentials : credentials'[k] = credentials[k]
                 /\ Cardinality(DOMAIN credentials') = Cardinality(DOMAIN credentials) + 1]_vars

\* C17: a credential that is in the store stays in the store unchanged:
\* every step other than clearAll() leaves getCredential(c.id) equal to c
\* for each credential c of the store.
C17_NeverMutatedNorDeleted ==
    [][(clearing.pc = "idle" /\ clearing'.pc = "save")
          \/ \A k \in DOMAIN credentials :
                getCredential(credentials', k) = Some(credentials[k])]_vars

\* C18: the duplicate check and the content match treat two payloads as
\* equal exactly when they are structurally equal, whatever the order of
\* their keys: POST /issue answers 409 exactly when a credential it read
\* from the store has structurally equal data, and verifyCredentialByData(d)
\* is valid exactly when an issued cached credential has data structurally
\* equal to d.
C18_StructuralEquality ==
    /\ [][\A r \in Reqs :
             (handler[r].pc = "check" /\ handler'[r].pc \notin {"check", "aborted"})
             => (Answered(r, 409)'
                   <=> \E c \in handler[r].existingCredentials :
                          DeepEqual(c.data, handler[r].body.data))]_vars
    /\ [](\A d \in Payloads :
             verifyCredentialByData(cache, d).isValid
               <=> \E c \in cacheCredentials(cache) :
                      c.status = "issued" /\ DeepEqual(c.data, d))

\* the last POST /sync was the push of request r, and it was applied
PushApplied(r) ==
    /\ handler[r].credential # Undefined
    /\ synced = Some([body |-> [isArray |-> TRUE,
                                 credentials |-> <<handler[r].credential[1]>>],
                       status |-> 200])

\* C19: from an empty store and an empty cache, in normal operation: the
\* first POST /issue with data d gets 201 with workerId worker-1; the
\* request after it, with the same d, gets 409; and while the first
\* request's push is the last sync the verifier applied, POST /verify with
\* the returned id answers isValid true.
C19_IssueRejectVerify ==
    /\ (handler[1].pc = "done" /\ handler[1].body.hasData)
       => /\ Answered(1, 201)
          /\ Sent(1).workerId = Some(WorkerIdStr(1))
    /\ (handler[2].pc = "done" /\ handler[2].body.hasData
          /\ handler[2].body.data = handler[1].body.data)
       => Answered(2, 409)
    /\ PushApplied(1)
       => LET answer == verifyRoute(cache, VerifyById(Sent(1).credential[1].id))
          IN  answer.status = 200 /\ answer.isValid

\* the whole scenario has run: 201 by worker-1, 409 for the same data, the
\* push applied, and /verify answered valid for the returned id
C19_Witness ==
    /\ Answered(1, 201)
    /\ Answered(2, 409)
    /\ PushApplied(1)
    /\ verdict # << >>
    /\ verdict[1].request.hasId
    /\ verdict[1].request.id = Sent(1).credential[1].id
    /\ verdict[1].response.isValid

\* the requests that get a 201 in this step
Succeeding ==
    {r \in Reqs : Len(response'[r]) > Len(response[r]) /\ Sent(r)'.status = 201}

\* C20: the step that answers 201 to a request starts exactly one push,
\* whose body is the one-element batch with the credential of that answer;
\* no other step starts a push (none for a 400, 409 or 500, none again after
\* a push failed), and no request is answered 201 twice.
C20_OnePushPerIssue ==
    [][/\ pushes' \ pushes =
            {[req |-> r, body |-> [credentials |-> <<Sent(r)'.credential[1]>>]] :
                r \in Succeeding}
       /\ \A r \in Succeeding : Len(response'[r]) = 1
       /\ \A m \in pushes' : Answered(m.req, 201)']_vars

\* one request was answered 201 and its push is in flight; another reached
\* the store, failed with 500 and has no push
C20_Witness ==
    \E r, q \in Reqs :
        /\ Answered(r, 201)
        /\ [req |-> r, body |-> [credentials |-> <<Sent(r).credential[1]>>]] \in pushes
        /\ Answered(q, 500)
        /\ handler[q].credential # Undefined
        /\ Cardinality(pushes) = 1

\* C21: a POST /verify with neither id nor data is answered 400 with
\* isValid false; the answer is the same whatever the cache holds, and the
\* step that answers leaves the cache as it was.
C21_NeitherIdNorData ==
    /\ [](\A request \in VerifyRequests :
             (~request.hasId /\ ~request.hasData)
             => LET answer == verifyRoute(cache, request)
                IN  /\ answer.status = 400
                    /\ ~answer.isValid
                    /\ ~answer.success
                    /\ answer.credential = Undefined
                    /\ answer = verifyRoute(<< >>, request))
    /\ [][(verdict' # verdict /\ ~verdict'[1].request.hasId /\ ~verdict'[1].request.hasData)
            => (cache' = cache /\ verdict'[1].response.status = 400)]_vars

\* /verify answered 400 to a request with neither id nor data while the
\* cache holds an issued credential
C21_Witness ==
    /\ verdict # << >>
    /\ ~verdict[1].request.hasId
    /\ ~verdict[1].request.hasData
    /\ verdict[1].response.status = 400
    /\ \E c \in cacheCredentials(cache) : c.status = "issued"

\* the cache holds an issued credential that the request matches: under its
\* id when the request has one, with structurally equal data otherwise
Matched(request) ==
    IF request.hasId
    THEN /\ CacheGet(cache, request.id) # Undefined
         /\ CacheGet(cache, request.id)[1].status = "issued"
    ELSE \E c \in cacheCredentials(cache) :
            c.status = "issued" /\ DeepEqual(c.data, request.data)

\* the negative verdict of POST /verify
NegativeVerdict ==
    [status |-> 200, success |-> TRUE, isValid |-> FALSE,
     message |-> <<"Credential is not valid or does not exist">>,
     credential |-> Undefined]

\* C22: a POST /verify that carries an id or data is always answered 200;
\* when no cached credential matches, or the one that matches is not
\* 'issued', the answer is success true, isValid false and no credential.
C22_NegativeVerdictIs200 ==
    \A request \in VerifyRequests :
        (request.hasId \/ request.hasData)
        => LET answer == verifyRoute(cache, request)
           IN  /\ answer.status = 200
               /\ ~Matched(request) => answer = NegativeVerdict
               /\ ~answer.isValid => answer = NegativeVerdict

\* /verify by data was answered 200 invalid while the cache holds a pending
\* credential with that data and no issued one
C22_Witness ==
    /\ verdict # << >>
    /\ ~verdict[1].request.hasId
    /\ verdict[1].request.hasData
    /\ verdict[1].response = NegativeVerdict
    /\ \E c \in cacheCredentials(cache) :
          c.status = "pending" /\ c.data = verdict[1].request.data
    /\ \A c \in cacheCredentials(cache) : c.status # "issued"

\* C23: a POST /verify with both an id and data is answered with the verdict
\* of verifyCredentialById(id) alone; an id that matches nothing gives the
\* negative verdict whatever the data.
C23_IdTakesPrecedence ==
    \A request \in VerifyRequests :
        (request.hasId /\ request.hasData)
        => /\ verifyRoute(cache, request)
                = verifyRespond(verifyCredentialById(cache, request.id))
           /\ CacheGet(cache, request.id) = Undefined
                => ~verifyRoute(cache, request).isValid

\* /verify with an id the cache does not hold and the data of an issued
\* cached credential was answered invalid
C23_Witness ==
    /\ verdict # << >>
    /\ verdict[1].request.hasId
    /\ verdict[1].request.hasData
    /\ CacheGet(cache, verdict[1].request.id) = Undefined
    /\ \E c \in cacheCredentials(cache) :
          c.status = "issued" /\ c.data = verdict[1].request.data
    /\ ~verdict[1].response.isValid
    /\ verdict[1].response.credential = Undefined

\* a response of /verify holds no payload: it has no field `data`, at the
\* top or in its credential, and its message is one of the two fixed texts
\* or names the issuer and the date of a cached credential
HoldsNoData(answer) ==
    /\ DOMAIN answer = {"status", "success", "isValid", "message", "credential"}
    /\ answer.credential # Undefined
         => DOMAIN answer.credential[1] = {"id", "issuedAt", "issuedBy", "status"}
    /\ \/ answer.message = <<"Invalid request: either credential ID or data is required">>
       \/ answer.message = <<"Credential is not valid or does not exist">>
       \/ \E c \in cacheCredentials(cache) :
             answer.message = <<"Credential is valid. Issued by ", c.issuedBy,
                                " on ", c.issuedAt>>

\* C24: a valid /verify response carries exactly the id, issuedAt, issuedBy
\* and status of an issued cached credential that the request matches, and no
\* /verify response, to whatever request, carries a credential's data.
C24_SummaryWithoutData ==
    \A request \in VerifyRequests :
        LET answer == verifyRoute(cache, request)
        IN  /\ HoldsNoData(answer)
            /\ answer.isValid
                 => \E c \in cacheCredentials(cache) :
                       /\ c.status = "issued"
                       /\ IF request.hasId THEN c.id = request.id
                          ELSE Stringify(c.data) = Stringify(request.data)
                       /\ answer.credential =
                            Some([id |-> c.id, issuedAt |-> c.issuedAt,
                                  issuedBy |-> c.issuedBy, status |-> c.status])

\* /verify by data and /verify by id have each been answered valid with the
\* summary of the cached credential
C24_Witness ==
    /\ verdict # << >>
    /\ verdict[1].response.isValid
    /\ ~verdict[1].request.hasId
    /\ \E c \in cacheCredentials(cache) :
          /\ c.data = verdict[1].request.data
          /\ verdict[1].response.credential[1].id = c.id
          /\ verifyRoute(cache, [hasId |-> TRUE, id |-> c.id, hasData |-> FALSE,
                                  data |-> PAB]).credential
               = verdict[1].response.credential

\* C25: a POST /sync whose `credentials` is not an array is answered 400 and
\* leaves the cache as it was; one whose `credentials` is an array is
\* answered 200 and leaves the cache holding that array, keyed by id.
C25_SyncValidation ==
    [][(synced' # << >> /\ (synced' # synced \/ cache' # cache))
        => LET body == synced'[1].body
               batch == body.credentials
           IN  IF body.isArray
               THEN /\ synced'[1].status = 200
                    /\ CacheIds(cache') = BatchIds(batch)
                    /\ \A id \in BatchIds(batch) :
                          CacheGet(cache', id) = Some(LastWith(batch, id))
               ELSE /\ synced'[1].status = 400
                    /\ cache' = cache]_vars

\* clearAll() completes in this step: the write of its snapshot succeeds
ClearCompletes ==
    /\ clearing.pc = "write"
    /\ clearing'.pc = "done"
    /\ file' = FileOf(clearing.snapshot[1])

\* C26: when clearAll() completes the store holds no credential, the counter
\* is 0, the persisted snapshot holds no credential and lastWorkerId 0, the
\* next getNextWorkerId() gives worker-1, and no payload is a duplicate.
C26_ClearAll ==
    [][ClearCompletes
        => /\ credentials' = EmptyMap
           /\ lastWorkerId' = 0
           /\ file' = FileOf([credentials |-> {}, lastWorkerId |-> 0])
           /\ initialize(file').credentials = EmptyMap
           /\ initialize(file').lastWorkerId = 0
           /\ getNextWorkerId(lastWorkerId').workerId = WorkerIdStr(1)
           /\ \A p \in Payloads :
                 ~credentialExists(getAllCredentials(credentials'), p)]_vars

\* a payload was issued by worker-1, the store was cleared, and the same
\* payload was issued again, by worker-1 again
C26_Witness ==
    /\ clearing.pc = "done"
    /\ Answered(1, 201)
    /\ Answered(2, 201)
    /\ Sent(1).credential[1].data = Sent(2).credential[1].data
    /\ Sent(1).credential[1].issuedBy = WorkerIdStr(1)
    /\ Sent(2).credential[1].issuedBy = WorkerIdStr(1)
    /\ getAllCredentials(credentials) = {Sent(2).credential[1]}
    /\ file = FileOf(Serializable(credentials, 1))

\* the store and its medium after initialize() and after initialize() twice
Once(outcome) == initializeOn(credentials, lastWorkerId, file, outcome)
Twice(outcome) ==
    initializeOn(Once(outcome).credentials, Once(outcome).lastWorkerId,
                 Once(outcome).file, outcome)

\* C27: initialize() called twice in a row leaves the credentials, the
\* counter and the persisted snapshot as one call does; on a new store with
\* no snapshot it leaves no credentials, counter 0 and the empty snapshot
\* written.
C27_InitializeIdempotent ==
    /\ [](\A outcome \in WriteOutcomes :
            /\ Twice(outcome).credentials = Once(outcome).credentials
            /\ Twice(outcome).lastWorkerId = Once(outcome).lastWorkerId
            /\ Twice(outcome).file = Once(outcome).file)
    /\ [](initializeOn(EmptyMap, 0, FileAbsent, "written")
            = [credentials |-> EmptyMap, lastWorkerId |-> 0,
               file |-> FileOf([credentials |-> {}, lastWorkerId |-> 0]),
               failed |-> FALSE])
    /\ [][(~up /\ up' /\ file.state # "ok")
            => /\ credentials' = credentials
               /\ lastWorkerId' = lastWorkerId
               /\ file' = FileOf(Serializable(credentials, lastWorkerId))]_vars

\* initialize() has run and the snapshot is that of the credentials and the
\* counter the store holds, so that a second call reloads the same
C27_Witness ==
    /\ up
    /\ credentials # EmptyMap
    /\ lastWorkerId > 0
    /\ file = FileOf(Serializable(credentials, lastWorkerId))
    /\ \E id \in DOMAIN credentials : credentials[id].data = PBA

\* C28: the cache's initialize() never fails and writes nothing; when the
\* snapshot is absent, unreadable or unparsable the cache is left as it was,
\* which on a new instance is empty.
C28_VerifierInitializeNeverFails ==
    /\ [](/\ ~verifierInitialize(cache, vfile).failed
           /\ verifierInitialize(cache, vfile).file = vfile
           /\ vfile.state # "ok"
                => /\ verifierInitialize(cache, vfile).cache = cache
                   /\ verifierInitialize(<< >>, vfile).cache = << >>)
    /\ [][vfile' = vfile]_vars
    /\ [](\A f \in {FileAbsent, FileCorrupt, FileUnreadable} :
            verifierInitialize(<< >>, f) = [cache |-> << >>, file |-> f, failed |-> FALSE])

\* initialize() ran on a new cache whose snapshot does not parse
C28_Witness ==
    /\ up
    /\ vfile = FileCorrupt
    /\ cache = << >>

\* the store: when issueCredential (the 201) or clearAll completes, a restart
\* reloads the credentials the store holds
StorePersisted ==
    [][(Succeeding # {} \/ ClearCompletes)
        => initialize(file').credentials = credentials']_vars

\* the cache: when syncCredentials has completed (the 200 of /sync), a
\* restart reloads the credentials the cache holds
CachePersisted ==
    [](synced # << >> /\ synced[1].status = 200
        => cacheCredentials(verifierInitialize(<< >>, vfile).cache)
             = cacheCredentials(cache))

\* C29: in each service, once an operation that changes the credential set
\* has completed (issueCredential, clearAll, syncCredentials), the persisted
\* snapshot of that service holds the in-memory set: a restart reloads it.
C29_EveryMutationPersisted == StorePersisted /\ CachePersisted

\* C30: a call of issueCredential or verifyCredential whose post failed is
\* rejected, never resolved; when the server answered with an error status
\* and a message the Error carries exactly that message, and when the
\* request got no response its message begins with the name of the service
\* followed by ' service is unavailable'.
C30_ClientRejectsOnFailure ==
    (client.pc = "settled" /\ ~client.outcome[1].ok)
    => LET error == client.outcome[1].error
           result == client.result[1]
       IN  /\ result.settled = "rejected"
           /\ result.value = Undefined
           /\ (error.hasResponse /\ error.hasData /\ error.hasMessage
                 /\ error.dataMessage # "")
                => result.message = <<error.dataMessage>>
           /\ (~error.hasResponse /\ error.hasRequest)
                => /\ Len(result.message) >= 2
                   /\ result.message[1] = client.service
                   /\ result.message[2] = " service is unavailable"

\* verifyCredential was rejected with 'Verification service is unavailable'
\* after a request that got no response
C30_Witness ==
    /\ client.pc = "settled"
    /\ client.service = "Verification"
    /\ ~client.outcome[1].ok
    /\ ~client.outcome[1].error.hasResponse
    /\ client.outcome[1].error.hasRequest
    /\ client.result[1].settled = "rejected"
    /\ client.result[1].message[1] = "Verification"
    /\ client.result[1].message[2] = " service is unavailable"

\* the pushes started in this step
Started == pushes' \ pushes

\* C31: a push carrying c is started only in the step in which the write of
\* c's snapshot completes successfully, at which point c is in the persisted
\* snapshot; the step in which a request's save fails (the 500) starts none.
C31_PushAfterPersistence ==
    [][/\ \A m \in Started :
             LET c == m.body.credentials[1]
             IN  /\ handler[m.req].pc = "write"
                 /\ handler[m.req].credential = Some(c)
                 /\ file' = FileOf(handler[m.req].snapshot[1])
                 /\ getCredential(initialize(file').credentials, c.id) = Some(c)
       /\ \A r \in Reqs :
             (Len(response'[r]) > Len(response[r]) /\ Sent(r)'.status = 500)
             => Started = {}]_vars

\* request r has read the store and found no credential with its data
PassedCheck(r) ==
    /\ handler[r].pc = "check"
    /\ ~credentialExists(handler[r].existingCredentials, handler[r].body.data)

\* C32: a request that found no duplicate in the credentials it read goes on
\* to issue whatever the store has come to hold since, and every credential
\* answered 201 is in the store with status 'issued': two requests with
\* identical data that both read the store before either issued both get 201
\* and leave two issued credentials with that data.
C32_BothPassAndIssue ==
    /\ \A r \in Reqs :
          PassedCheck(r) => ENABLED (\E d \in FreshDraws : Issue(r, d[1], d[2]))
    /\ \A r \in Reqs :
          Answered(r, 201)
          => /\ getCredential(credentials, Sent(r).credential[1].id) = Sent(r).credential
             /\ Sent(r).credential[1].status = "issued"
             /\ Sent(r).credential[1].data = handler[r].body.data

\* both requests carried the same data, both got 201, and the store holds
\* two issued credentials with that data
C32_Witness ==
    /\ Answered(1, 201)
    /\ Answered(2, 201)
    /\ handler[1].body.data = handler[2].body.data
    /\ \E i, j \in DOMAIN credentials :
          /\ i # j
          /\ credentials[i] = Sent(1).credential[1]
          /\ credentials[j] = Sent(2).credential[1]
          /\ credentials[i].status = "issued"
          /\ credentials[j].status = "issued"
          /\ Stringify(credentials[i].data) = Stringify(credentials[j].data)

\* POST /verify {id} would answer valid
Verifies(id) == verifyRoute(cache, VerifyById(id)).isValid

\* C33: the step that answers 201 for c leaves the cache as it was, so the
\* client can hold the 201 while /verify with c.id answers not valid; and
\* once c's push is gone without c having become valid, no later step makes
\* /verify with c.id answer valid.
C33_VerifierMayNeverKnow ==
    /\ [][\A r \in Succeeding : cache' = cache /\ PushOf(r) \in pushes']_vars
    /\ [][\A r \in Reqs :
             (/\ Answered(r, 201)
              /\ PushOf(r) \notin pushes
              /\ ~Verifies(Sent(r).credential[1].id))
             => ~Verifies(Sent(r).credential[1].id)']_vars

\* a request was answered 201 for c, its push was lost before any sync was
\* applied, and POST /verify with c.id has answered not valid
C33_Witness ==
    \E r \in Reqs :
        /\ Answered(r, 201)
        /\ PushOf(r) \notin pushes
        /\ synced = << >>
        /\ verdict # << >>
        /\ verdict[1].request = VerifyById(Sent(r).credential[1].id)
        /\ verdict[1].response.status = 200
        /\ ~verdict[1].response.isValid

\* the last response of the second instance
ReplicaSent == replica.response[Len(replica.response)]

\* C34: each instance checks duplicates against its own store and numbers
\* its workers from its own counter, whatever the other instance holds: the
\* second instance answers 409 exactly when its own store holds the data,
\* 201 otherwise, and then by the worker after its own counter; a step of
\* one instance leaves the store, the counter and the medium of the other
\* unchanged.
C34_InstancesAreIndependent ==
    /\ [][replica' # replica
            => /\ UNCHANGED <<credentials, lastWorkerId, file, handler, response>>
               /\ replica'.body.hasData
                    => LET own == credentialExists(getAllCredentials(replica.credentials),
                                                   replica'.body.data)
                       IN  /\ ReplicaSent'.status = 409 <=> own
                           /\ ReplicaSent'.status = 201 <=> ~own
               /\ ReplicaSent'.status = 201
                    => /\ ReplicaSent'.workerId = Some(WorkerIdStr(replica.lastWorkerId + 1))
                       /\ ReplicaSent'.credential[1].issuedBy
                            = WorkerIdStr(replica.lastWorkerId + 1)
                       /\ ReplicaSent'.credential[1].data = replica'.body.data]_vars
    /\ [][<<credentials, lastWorkerId, file, handler, response>>
             # <<credentials', lastWorkerId', file', handler', response'>>
            => replica' = replica]_vars

\* the same data was issued by each instance: both answered 201, and both
\* credentials are by worker-1
C34_Witness ==
    /\ Answered(1, 201)
    /\ replica.response # << >>
    /\ ReplicaSent.status = 201
    /\ Stringify(Sent(1).credential[1].data) = Stringify(ReplicaSent.credential[1].data)
    /\ Sent(1).credential[1].issuedBy = WorkerIdStr(1)
    /\ ReplicaSent.credential[1].issuedBy = WorkerIdStr(1)
    /\ Sent(1).credential[1] \in getAllCredentials(credentials)
    /\ ReplicaSent.credential[1] \in getAllCredentials(replica.credentials)

\* C35: a POST /verify, whatever it answers, leaves the cache (and the
\* verifier's medium) as it was; the cache changes only in a step of /sync or
\* of a restart, and the three read methods return without changing it.
C35_VerificationIsReadOnly ==
    /\ [][verdict' # verdict
            => /\ cache' = cache
               /\ vfile' = vfile
               /\ synced' = synced
               /\ verdict'[1].response = verifyRoute(cache', verdict'[1].request)]_vars
    /\ [][cache' # cache => synced' # synced]_vars

\* /verify has answered valid for a credential of the last batch and the
\* cache still holds the whole batch
C35_Witness ==
    /\ verdict # << >>
    /\ verdict[1].response.isValid
    /\ synced # << >>
    /\ synced[1].status = 200
    /\ Len(synced[1].body.credentials) = 2
    /\ cacheCredentials(cache) = Range(synced[1].body.credentials)
    /\ Len(cache) = 2
    /\ \E c \in cacheCredentials(cache) :
          c.id = verdict[1].response.credential[1].id /\ c.status = "issued"

\* the verifier holds c: the lookup of c.id is valid and returns c
VerifiesAs(c) ==
    /\ verifyCredentialById(cache, c.id).isValid
    /\ verifyCredentialById(cache, c.id).credential = Some(c)

\* C36: with the pushes of the issuance service as the only calls of /sync,
\* the cache never holds more than one credential; the step that applies a
\* push leaves exactly the credential of that push in it; and of the
\* credentials answered 201 the only one that verifies is the one whose push
\* was applied last.
C36_CacheHoldsLastPushOnly ==
    /\ [](Len(cache) <= 1)
    /\ [][(cache' # cache \/ synced' # synced)
            => \E m \in pushes \ pushes' :
                  /\ synced' = Some([body |-> [isArray |-> TRUE,
                                               credentials |-> m.body.credentials],
                                     status |-> 200])
                  /\ cacheCredentials(cache') = {m.body.credentials[1]}]_vars
    /\ [](\A r \in Reqs :
            Answered(r, 201)
            => (VerifiesAs(Sent(r).credential[1])
                 <=> /\ synced # << >>
                     /\ synced[1].body.credentials = <<Sent(r).credential[1]>>))

\* c1 was issued first and c2 second; /verify answered valid for c2, so its
\* push was delivered; the push of c1 was delivered after it, and now only
\* c1 verifies
C36_Witness ==
    /\ Answered(1, 201)
    /\ Answered(2, 201)
    /\ Sent(1).credential[1].issuedBy = WorkerIdStr(1)
    /\ Sent(2).credential[1].issuedBy = WorkerIdStr(2)
    /\ pushes = {}
    /\ verdict # << >>
    /\ verdict[1].request = VerifyById(Sent(2).credential[1].id)
    /\ verdict[1].response.isValid
    /\ cacheCredentials(cache) = {Sent(1).credential[1]}
    /\ VerifiesAs(Sent(1).credential[1])
    /\ ~VerifiesAs(Sent(2).credential[1])

\* C37: on one store, with requests in flight together and no restart or
\* clearAll, no two credentials of the store have the same issuedBy and no
\* two 201 responses report the same workerId (each reports the issuedBy of
\* its credential).
C37_WorkerIdsDistinct ==
    /\ \A i, j \in DOMAIN credentials :
          i # j => credentials[i].issuedBy # credentials[j].issuedBy
    /\ \A r, q \in Reqs :
          (r # q /\ Answered(r, 201) /\ Answered(q, 201))
          => /\ Sent(r).workerId # Sent(q).workerId
             /\ Sent(r).credential[1].issuedBy # Sent(q).credential[1].issuedBy
    /\ \A r \in Reqs :
          Answered(r, 201) => Sent(r).workerId = Some(Sent(r).credential[1].issuedBy)

\* two requests were in flight together, the one received second took its
\* worker id first, both got 201 and the store holds both credentials
C37_Witness ==
    /\ Answered(1, 201)
    /\ Answered(2, 201)
    /\ Sent(1).workerId = Some(WorkerIdStr(2))
    /\ Sent(2).workerId = Some(WorkerIdStr(1))
    /\ {Sent(1).credential[1], Sent(2).credential[1]} = getAllCredentials(credentials)
    /\ Sent(1).credential[1] # Sent(2).credential[1]

\* every credential of the set is by worker-n with 1 <= n <= last
NumberedUpTo(creds, last) ==
    \A c \in creds :
        /\ c.issuedBy = WorkerIdStr(c.issuedBy[2])
        /\ 1 <= c.issuedBy[2]
        /\ c.issuedBy[2] <= last

\* the credentials of a snapshot
SnapshotCredentials(snap) == {e[2] : e \in snap.credentials}

\* C38: every credential of the store is by worker-n with 1 <= n <= the
\* counter, and in every snapshot, written or being written, lastWorkerId is
\* at least the n of each of its credentials.
C38_CounterBoundsWorkerIds ==
    /\ NumberedUpTo(getAllCredentials(credentials), lastWorkerId)
    /\ file.state = "ok"
         => NumberedUpTo(SnapshotCredentials(file.content), file.content.lastWorkerId)
    /\ \A r \in Reqs :
          handler[r].snapshot # Undefined
          => NumberedUpTo(SnapshotCredentials(handler[r].snapshot[1]),
                          handler[r].snapshot[1].lastWorkerId)
    /\ clearing.snapshot # Undefined
         => NumberedUpTo(SnapshotCredentials(clearing.snapshot[1]),
                         clearing.snapshot[1].lastWorkerId)

\* a request issued as worker-1 and its write failed; the service was
\* restarted or cleared, and the next request was issued as worker-1 again
\* and written
C38_Witness ==
    /\ Answered(1, 500)
    /\ handler[1].credential # Undefined
    /\ handler[1].credential[1].issuedBy = WorkerIdStr(1)
    /\ Answered(2, 201)
    /\ Sent(2).credential[1].issuedBy = WorkerIdStr(1)
    /\ lastWorkerId = 1
    /\ getAllCredentials(credentials) = {Sent(2).credential[1]}
    /\ file = FileOf(Serializable(credentials, lastWorkerId))
\* the snapshot of a store that holds nothing
EmptySnapshot == FileOf(Serializable(EmptyMap, 0))

\* C39: when the snapshot exists but cannot be read or parsed, initialize()
\* on a freshly constructed store leaves the store empty with counter 0 and
\* rejects exactly when its write of the empty snapshot fails; when it does
\* not reject the medium holds the empty snapshot, and whatever the medium
\* holds afterwards, a later restart loads no credential from it.
C39_UnreadableSnapshotStartsEmpty ==
    /\ [](\A f \in {FileCorrupt, FileUnreadable}, outcome \in WriteOutcomes :
            LET init == initializeOn(EmptyMap, 0, f, outcome)
            IN  /\ init.credentials = EmptyMap
                /\ init.lastWorkerId = 0
                /\ init.failed <=> outcome # "written"
                /\ ~init.failed => init.file = EmptySnapshot
                /\ \A later \in WriteOutcomes :
                      initializeOn(EmptyMap, 0, init.file, later).credentials = EmptyMap)
    /\ [][(~up /\ file.state \in {"corrupt", "unreadable"})
            => /\ credentials' = EmptyMap
               /\ lastWorkerId' = 0
               /\ up' <=> file' = EmptySnapshot
               /\ \A later \in WriteOutcomes :
                     initializeOn(EmptyMap, 0, file', later).credentials = EmptyMap]_vars

\* a credential was persisted and answered with 201, a later write left the
\* file truncated, the process ended, and startServer() brought the service
\* up with an empty store over the empty snapshot
C39_Witness ==
    /\ up
    /\ Answered(1, 201)
    /\ Answered(2, 500)
    /\ credentials = EmptyMap
    /\ lastWorkerId = 0
    /\ file = EmptySnapshot

====
